---- MODULE Spec2Model ----
(***************************************************************************)
(* Model of the ocrdb backend (backend/app): the in-memory document/tag    *)
(* index (database.py), the storage variants (storage.py), the OCR engine  *)
(* factory (ocr.py) and the request handlers of api.py.                    *)
(*                                                                         *)
(* Scheduling.  Every handler is a coroutine on one event loop.  The       *)
(* coroutines of InMemoryDB only touch dictionaries, so a handler runs     *)
(* atomically across them.  The awaits on the storage backend and on the   *)
(* OCR engine inside process_document_ocr are the points where another     *)
(* request may be served: an OCR run is therefore a process with a         *)
(* position (pc), and everything between two such points is one action.    *)
(*                                                                         *)
(* Python values.  Optional[X] is a set with at most one element (None is  *)
(* the empty set).  A str that the code takes apart (tag names, the        *)
(* comma-separated tag list) is a sequence of one-character strings.       *)
(* Bytes are sequences of small integers.  uuid4() is a fresh counter.     *)
(***************************************************************************)
EXTENDS Integers, Sequences, FiniteSets, TLC

VARIABLES
    documents,   \* InMemoryDB.documents: document id -> Document
    tags,        \* InMemoryDB.tags: tag id -> Tag
    settings,    \* InMemoryDB.settings: SystemSettings
    files,       \* the local filesystem under storage/: path -> bytes
    installed,   \* ocr.py EASYOCR_AVAILABLE / PADDLEOCR_AVAILABLE (import time)
    runs,        \* process_document_ocr frames in flight: run id -> frame
    response,    \* what the handler that finished last returned or raised
    submitted,   \* per document id, the upload request: its bytes and tags field
    nextDoc,     \* uuid4() stand-ins: next document id,
    nextTag,     \*   next tag id,
    nextPath,    \*   next storage file name,
    nextRun,     \*   next run id
    calls        \* number of requests accepted so far

vars == <<documents, tags, settings, files, installed, runs, response,
          submitted, nextDoc, nextTag, nextPath, nextRun, calls>>

----------------------------------------------------------------------------
(* Bounds of the model *)

MaxDocs == 2
MaxTags == 2
MaxCalls == 3
MaxLen == 2

----------------------------------------------------------------------------
(* Python values *)

None == {}
Some(x) == {x}
The(opt) == CHOOSE x \in opt : TRUE

\* `a or b` on an Optional[str]: None and "" are falsy
OrElse(opt, default) == IF opt = None \/ opt = Some("") THEN default ELSE The(opt)

Max(S) == CHOOSE x \in S : \A y \in S : y <= x
Min(S) == CHOOSE x \in S : \A y \in S : x <= y

\* the elements of a list
Range(f) == {f[x] : x \in DOMAIN f}

\* str.lower() on the letters the model uses
LowerChar(c) == CASE c = "R" -> "r"
                  [] c = "I" -> "i"
                  [] OTHER -> c
lower(s) == [i \in DOMAIN s |-> LowerChar(s[i])]

IsSpace(c) == c = " "

RECURSIVE lstrip(_)
lstrip(s) == IF s # <<>> /\ IsSpace(Head(s)) THEN lstrip(Tail(s)) ELSE s

RECURSIVE rstrip(_)
rstrip(s) == IF s # <<>> /\ IsSpace(s[Len(s)])
             THEN rstrip(SubSeq(s, 1, Len(s) - 1))
             ELSE s

\* str.strip()
strip(s) == rstrip(lstrip(s))

\* str.strip(c) and str.rstrip(c) for one character c
RECURSIVE lstrip_char(_, _)
lstrip_char(s, c) == IF s # <<>> /\ Head(s) = c THEN lstrip_char(Tail(s), c) ELSE s

RECURSIVE rstrip_char(_, _)
rstrip_char(s, c) == IF s # <<>> /\ s[Len(s)] = c
                     THEN rstrip_char(SubSeq(s, 1, Len(s) - 1), c)
                     ELSE s

strip_char(s, c) == rstrip_char(lstrip_char(s, c), c)

\* str.split(sep): the pieces between the separators, empty pieces included
RECURSIVE split(_, _)
split(s, sep) ==
    IF \E i \in DOMAIN s : s[i] = sep
    THEN LET i == Min({j \in DOMAIN s : s[j] = sep})
         IN  <<SubSeq(s, 1, i - 1)>> \o split(SubSeq(s, i + 1, Len(s)), sep)
    ELSE <<s>>

\* `needle in haystack` on str
Contains(haystack, needle) ==
    \E i \in 0..(Len(haystack) - Len(needle)) :
        SubSeq(haystack, i + 1, i + Len(needle)) = needle

\* ord() on the characters of the file names of the model
CharRank(c) == CASE c = "." -> 46
                 [] c = "R" -> 82
                 [] c = "a" -> 97
                 [] c = "d" -> 100
                 [] c = "f" -> 102
                 [] c = "g" -> 103
                 [] c = "i" -> 105
                 [] c = "n" -> 110
                 [] c = "p" -> 112
                 [] c = "r" -> 114
                 [] c = "s" -> 115
                 [] OTHER -> 0

\* a < b on str
RECURSIVE LexLess(_, _)
LexLess(a, b) ==
    IF b = <<>> THEN FALSE
    ELSE IF a = <<>> THEN TRUE
    ELSE IF CharRank(Head(a)) # CharRank(Head(b))
    THEN CharRank(Head(a)) < CharRank(Head(b))
    ELSE LexLess(Tail(a), Tail(b))

\* str.lower() on the sort orders a request may name
LowerWord(w) == CASE w = "DESC" -> "desc"
                  [] w = "ASC" -> "asc"
                  [] OTHER -> w

\* the characters of a file name's extension
ExtChars(ext) == CASE ext = ".png" -> <<".", "p", "n", "g">>
                   [] ext = ".pdf" -> <<".", "p", "d", "f">>
                   [] ext = ".txt" -> <<".", "t", "x", "t">>
                   [] ext = ".zip" -> <<".", "z", "i", "p">>
                   [] OTHER -> <<>>

\* a file name as a str
FilenameChars(filename) == filename.stem \o ExtChars(filename.ext)

\* mimetypes.guess_type, by extension
guess_type(ext) == CASE ext = ".png" -> Some("image/png")
                     [] ext = ".pdf" -> Some("application/pdf")
                     [] ext = ".zip" -> Some("application/zip")
                     [] ext = ".txt" -> Some("text/plain")
                     [] OTHER -> None

\* str.startswith("image/") on the MIME types of the model
IsImageMime(m) == m \in {"image/png", "image/jpeg"}

----------------------------------------------------------------------------
(* models.py *)

PENDING == "pending"
PROCESSING == "processing"
COMPLETED == "completed"
FAILED == "failed"
OCRStatus == {PENDING, PROCESSING, COMPLETED, FAILED}

DefaultColor == "#808080"

Tag(name) == [name |-> name, color |-> DefaultColor]

\* SystemSettings(): sizes are counted in blocks of 10 MiB, one element of an
\* upload's byte sequence standing for one block (10 MiB = 1, 50 MiB = 5)
DefaultMaxFileSize == 1
DefaultMaxZipSize == 5
SystemSettings == [storage_type |-> "local",
                   max_file_size |-> DefaultMaxFileSize,
                   max_zip_size |-> DefaultMaxZipSize,
                   default_ocr_engine |-> "tesseract"]

\* Document(...) as create_document builds it; the other fields take their
\* defaults.  upload_date is datetime.utcnow() at construction: a clock that
\* advances from one Document to the next.
Document(filename, file_path, thumbnail_path, mime_type, size, folder_path, upload_date) ==
    [filename |-> filename,
     file_path |-> file_path,
     thumbnail_path |-> thumbnail_path,
     mime_type |-> mime_type,
     size |-> size,
     folder_path |-> folder_path,
     upload_date |-> upload_date,
     ocr_status |-> PENDING,
     ocr_text |-> None,
     ocr_engine |-> None,
     ocr_engine_version |-> None,
     tags |-> <<>>,
     metadata |-> {}]

----------------------------------------------------------------------------
(* storage.py *)

StorageNotFound == "File not found"
S3NotImplemented == "S3 storage is not fully implemented"
OctetStream == "application/octet-stream"

\* get_storage(): the variant the settings select at the time of the call
get_storage(st) == IF st.storage_type = "s3" THEN "s3" ELSE "local"

\* storage/documents/<uuid4><ext> (local) or documents/<uuid4><ext> (s3)
NewPath(storage, n, filename) == [store |-> storage, n |-> n, ext |-> filename.ext]

\* shutil.copyfileobj(file_content, f): the bytes from the stream's position on
copyfileobj(data, pos) == SubSeq(data, pos + 1, Len(data))

\* LocalStorage.save_file
LocalStorage_save_file(fs, n, data, filename) ==
    LET path == NewPath("local", n, filename)
    IN  [path |-> path,
         files |-> [p \in DOMAIN fs \cup {path} |->
                        IF p = path THEN copyfileobj(data, 0) ELSE fs[p]]]

\* S3Storage.save_file: a key is made up, nothing is written
S3Storage_save_file(fs, n, data, filename) ==
    [path |-> NewPath("s3", n, filename), files |-> fs]

save_file(storage, fs, n, data, filename) ==
    IF storage = "s3" THEN S3Storage_save_file(fs, n, data, filename)
                      ELSE LocalStorage_save_file(fs, n, data, filename)

\* LocalStorage.get_file
LocalStorage_get_file(fs, path) ==
    IF path \notin DOMAIN fs
    THEN [ok |-> FALSE, error |-> StorageNotFound]
    ELSE [ok |-> TRUE,
          content |-> fs[path],
          mime |-> OrElse(guess_type(path.ext), OctetStream)]

\* S3Storage.get_file
S3Storage_get_file(fs, path) == [ok |-> FALSE, error |-> S3NotImplemented]

get_file(storage, fs, path) ==
    IF storage = "s3" THEN S3Storage_get_file(fs, path)
                      ELSE LocalStorage_get_file(fs, path)

\* LocalStorage.delete_file
LocalStorage_delete_file(fs, path) ==
    IF path \notin DOMAIN fs
    THEN [deleted |-> FALSE, files |-> fs]
    ELSE [deleted |-> TRUE, files |-> [p \in DOMAIN fs \ {path} |-> fs[p]]]

\* S3Storage.delete_file
S3Storage_delete_file(fs, path) == [deleted |-> FALSE, files |-> fs]

delete_file(storage, fs, path) ==
    IF storage = "s3" THEN S3Storage_delete_file(fs, path)
                      ELSE LocalStorage_delete_file(fs, path)

\* the preview PIL derives from an image: opaque bytes that are not the original
Thumbnail(data) == <<0>> \o data

\* StorageBase.create_thumbnail; decodes: whether PIL can open and save the image
create_thumbnail(storage, fs, n, file_path, decodes) ==
    LET got == get_file(storage, fs, file_path)
    IN  IF ~got.ok THEN [path |-> None, files |-> fs]
        ELSE IF ~IsImageMime(got.mime) THEN [path |-> None, files |-> fs]
        ELSE IF ~decodes THEN [path |-> None, files |-> fs]
        ELSE LET saved == save_file(storage, fs, n, Thumbnail(got.content),
                                    [stem |-> "thumb", ext |-> file_path.ext])
             IN  [path |-> Some(saved.path), files |-> saved.files]

----------------------------------------------------------------------------
(* ocr.py *)

TESSERACT == "tesseract"
EASYOCR == "easyocr"
PADDLEOCR == "paddleocr"

\* best-effort version strings (TesseractOCR.__init__, EasyOCR, PaddleOCRProcessor)
EngineVersion(name) == IF name = TESSERACT THEN "version_str" ELSE "unknown"

EasyOcrMissing == "EasyOCR is not installed"
PaddleOcrMissing == "PaddleOCR is not installed"
UnknownEngine == "Unknown OCR engine"
RecognitionError == "OCR error"

\* get_ocr_processor
get_ocr_processor(engine, inst) ==
    IF engine = TESSERACT
    THEN [ok |-> TRUE, name |-> TESSERACT, version |-> EngineVersion(TESSERACT)]
    ELSE IF engine = EASYOCR
    THEN IF EASYOCR \notin inst
         THEN [ok |-> FALSE, error |-> EasyOcrMissing]
         ELSE [ok |-> TRUE, name |-> EASYOCR, version |-> EngineVersion(EASYOCR)]
    ELSE IF engine = PADDLEOCR
    THEN IF PADDLEOCR \notin inst
         THEN [ok |-> FALSE, error |-> PaddleOcrMissing]
         ELSE [ok |-> TRUE, name |-> PADDLEOCR, version |-> EngineVersion(PADDLEOCR)]
    ELSE [ok |-> FALSE, error |-> UnknownEngine]

\* "\n\n".join(pages)
RECURSIVE join(_, _)
join(pages, sep) ==
    IF pages = <<>> THEN <<>>
    ELSE IF Len(pages) = 1 THEN pages[1]
    ELSE pages[1] \o sep \o join(Tail(pages), sep)

PageSeparator == <<"\n", "\n">>

\* what the engines read: one text per image, one text per page of a PDF
ImageText == <<"r">>
PdfPages == << <<"r">>, <<"i">> >>

\* the text process_document_ocr stores for a file of the given MIME type
RecognisedText(mime) ==
    IF mime = "application/pdf" THEN join(PdfPages, PageSeparator) ELSE ImageText

----------------------------------------------------------------------------
(* database.py: InMemoryDB *)

\* InMemoryDB.get_document
db_get_document(docs, id) == IF id \in DOMAIN docs THEN Some(docs[id]) ELSE None

\* InMemoryDB.create_document
db_create_document(docs, id, doc) ==
    [d \in DOMAIN docs \cup {id} |-> IF d = id THEN doc ELSE docs[d]]

\* a variant of update_document that writes the update to every document
db_update_document_AllDocs(docs, id, update_data) ==
    IF id \notin DOMAIN docs THEN docs
    ELSE [d \in DOMAIN docs |->
            [key \in DOMAIN docs[d] |->
                IF key \in DOMAIN update_data THEN update_data[key]
                                              ELSE docs[d][key]]]

\* a variant of update_document that stores a record for an id it does not know
db_update_document_Upsert(docs, id, update_data) ==
    LET old == IF id \in DOMAIN docs THEN docs[id]
               ELSE Document([stem |-> <<>>, ext |-> ""],
                             [store |-> "local", n |-> 0, ext |-> ""],
                             None, OctetStream, 0, <<"/">>, 0)
    IN  [d \in DOMAIN docs \cup {id} |->
            IF d = id
            THEN [key \in DOMAIN old |->
                    IF key \in DOMAIN update_data THEN update_data[key] ELSE old[key]]
            ELSE docs[d]]

\* InMemoryDB.update_document: setattr for every key the Document has;
\* an unknown id changes nothing
db_update_document(docs, id, update_data) ==
    IF id \notin DOMAIN docs THEN docs
    ELSE [docs EXCEPT ![id] =
            [key \in DOMAIN docs[id] |->
                IF key \in DOMAIN update_data THEN update_data[key]
                                              ELSE docs[id][key]]]

\* InMemoryDB.delete_document
db_delete_document_Keep(docs, id) == docs

db_delete_document(docs, id) == [d \in DOMAIN docs \ {id} |-> docs[d]]

\* a variant of get_tag_by_name that compares the names as they are
db_get_tag_by_name_CaseSensitive(tgs, name) ==
    LET hits == {t \in DOMAIN tgs : tgs[t].name = name}
    IN  IF hits = {} THEN None ELSE Some(Min(hits))

\* list(self.documents.values()): the ids in insertion order.  Ids grow with
\* every Document created and a dict keeps insertion order.
RECURSIVE InOrder(_)
InOrder(ids) ==
    IF ids = {} THEN <<>> ELSE <<Min(ids)>> \o InOrder(ids \ {Min(ids)})

\* list.sort(key=..., reverse=...): a stable sort of the ids by an integer key
RECURSIVE Insert(_, _, _, _)
Insert(sorted, x, key, reverse) ==
    IF sorted = <<>> THEN <<x>>
    ELSE IF (IF reverse THEN key[x] > key[Head(sorted)] ELSE key[x] < key[Head(sorted)])
    THEN <<x>> \o sorted
    ELSE <<Head(sorted)>> \o Insert(Tail(sorted), x, key, reverse)

RECURSIVE Sort(_, _, _)
Sort(results, key, reverse) ==
    IF results = <<>> THEN <<>>
    ELSE Insert(Sort(SubSeq(results, 1, Len(results) - 1), key, reverse),
                results[Len(results)], key, reverse)

\* the order of str on file names, as a number: how many of the names are smaller
FilenameKey(docs) ==
    [d \in DOMAIN docs |->
        Cardinality({n \in {FilenameChars(docs[e].filename) : e \in DOMAIN docs} :
                        LexLess(n, FilenameChars(docs[d].filename))})]

\* results[skip:skip+limit]
Slice(results, skip, limit) ==
    SubSeq(results, skip + 1, Min({Len(results), skip + limit}))

\* a variant of the tag filter that compares the names ignoring case
HasTagNamed_IgnoreCase(doc_tags, tgs, tag_names) ==
    \E i \in DOMAIN doc_tags :
        \E n \in tag_names : lower(tgs[doc_tags[i]].name) = lower(n)

\* search_documents, the tag filter: any(tag.name in tag_names for tag in doc.tags)
HasTagNamed(doc_tags, tgs, tag_names) ==
    \E i \in DOMAIN doc_tags : tgs[doc_tags[i]].name \in tag_names

\* a variant of search_documents that leaves the MIME type filter out
db_search_documents_NoMime(docs, tgs, text, tag_list, folder_path, mime_types, date_from, date_to, skip, limit, sort_by, sort_order) ==
    LET r0 == InOrder(DOMAIN docs)
        needle == lower(The(text))
        r1 == IF text = None \/ text = Some(<<>>) THEN r0
              ELSE SelectSeq(r0, LAMBDA d :
                      \/ /\ docs[d].ocr_text # None
                         /\ docs[d].ocr_text # Some(<<>>)
                         /\ Contains(lower(The(docs[d].ocr_text)), needle)
                      \/ Contains(lower(FilenameChars(docs[d].filename)), needle))
        r2 == IF tag_list = <<>> THEN r1
              ELSE SelectSeq(r1, LAMBDA d :
                      \E i \in DOMAIN docs[d].tags :
                         tgs[docs[d].tags[i]].name \in Range(tag_list))
        r3 == IF folder_path = None \/ folder_path = Some(<<>>) THEN r2
              ELSE SelectSeq(r2, LAMBDA d : docs[d].folder_path = The(folder_path))
        r5 == IF date_from = None THEN r3
              ELSE SelectSeq(r3, LAMBDA d : docs[d].upload_date >= The(date_from))
        r6 == IF date_to = None THEN r5
              ELSE SelectSeq(r5, LAMBDA d : docs[d].upload_date <= The(date_to))
        reverse == LowerWord(sort_order) = "desc"
        r7 == IF sort_by = "upload_date"
              THEN Sort(r6, [d \in DOMAIN docs |-> docs[d].upload_date], reverse)
              ELSE IF sort_by = "filename" THEN Sort(r6, FilenameKey(docs), reverse)
              ELSE IF sort_by = "size"
              THEN Sort(r6, [d \in DOMAIN docs |-> docs[d].size], reverse)
              ELSE r6
    IN  Slice(r7, skip, limit)

\* InMemoryDB.search_documents: the filters that are given, one after the
\* other, then the sort and the page
db_search_documents(docs, tgs, text, tag_list, folder_path, mime_types, date_from, date_to, skip, limit, sort_by, sort_order) ==
    LET r0 == InOrder(DOMAIN docs)
        needle == lower(The(text))
        r1 == IF text = None \/ text = Some(<<>>) THEN r0
              ELSE SelectSeq(r0, LAMBDA d :
                      \/ /\ docs[d].ocr_text # None
                         /\ docs[d].ocr_text # Some(<<>>)
                         /\ Contains(lower(The(docs[d].ocr_text)), needle)
                      \/ Contains(lower(FilenameChars(docs[d].filename)), needle))
        r2 == IF tag_list = <<>> THEN r1
              ELSE SelectSeq(r1, LAMBDA d :
                      HasTagNamed(docs[d].tags, tgs, Range(tag_list)))
        r3 == IF folder_path = None \/ folder_path = Some(<<>>) THEN r2
              ELSE SelectSeq(r2, LAMBDA d : docs[d].folder_path = The(folder_path))
        r4 == IF mime_types = <<>> THEN r3
              ELSE SelectSeq(r3, LAMBDA d : docs[d].mime_type \in Range(mime_types))
        r5 == IF date_from = None THEN r4
              ELSE SelectSeq(r4, LAMBDA d : docs[d].upload_date >= The(date_from))
        r6 == IF date_to = None THEN r5
              ELSE SelectSeq(r5, LAMBDA d : docs[d].upload_date <= The(date_to))
        reverse == LowerWord(sort_order) = "desc"
        r7 == IF sort_by = "upload_date"
              THEN Sort(r6, [d \in DOMAIN docs |-> docs[d].upload_date], reverse)
              ELSE IF sort_by = "filename" THEN Sort(r6, FilenameKey(docs), reverse)
              ELSE IF sort_by = "size"
              THEN Sort(r6, [d \in DOMAIN docs |-> docs[d].size], reverse)
              ELSE r6
    IN  Slice(r7, skip, limit)

\* InMemoryDB.get_tag_by_name: the first tag, in insertion order, whose
\* lower-cased name equals the lower-cased argument
db_get_tag_by_name(tgs, name) ==
    LET hits == {t \in DOMAIN tgs : lower(tgs[t].name) = lower(name)}
    IN  IF hits = {} THEN None ELSE Some(Min(hits))

\* InMemoryDB.create_tag
db_create_tag(tgs, id, tag) ==
    [t \in DOMAIN tgs \cup {id} |-> IF t = id THEN tag ELSE tgs[t]]

\* InMemoryDB.update_tag: a falsy name or color (None, "") is left as it is
db_update_tag(tgs, id, name, color) ==
    IF id \notin DOMAIN tgs THEN tgs
    ELSE [tgs EXCEPT ![id] =
            [name |-> IF name = None \/ name = Some(<<>>) THEN @.name ELSE The(name),
             color |-> OrElse(color, @.color)]]

\* [tag for tag in doc.tags if tag.id != tag_id]
RECURSIVE WithoutTag(_, _)
WithoutTag(doc_tags, id) ==
    IF doc_tags = <<>> THEN <<>>
    ELSE IF Head(doc_tags) = id THEN WithoutTag(Tail(doc_tags), id)
    ELSE <<Head(doc_tags)>> \o WithoutTag(Tail(doc_tags), id)

\* InMemoryDB.delete_tag, the tag index
db_delete_tag_tags(tgs, id) == [t \in DOMAIN tgs \ {id} |-> tgs[t]]

\* a variant of delete_tag that leaves the documents as they are
db_delete_tag_documents_NoCascade(docs, tgs, id) == docs

\* InMemoryDB.delete_tag, the cascade over the documents
db_delete_tag_documents(docs, tgs, id) ==
    IF id \notin DOMAIN tgs THEN docs
    ELSE [d \in DOMAIN docs |-> [docs[d] EXCEPT !.tags = WithoutTag(@, id)]]

\* a variant of add_tag_to_document that does not look the tag up
db_add_tag_to_document_AnyTag(docs, tgs, document_id, tag_id) ==
    IF document_id \notin DOMAIN docs THEN docs
    ELSE IF \E i \in DOMAIN docs[document_id].tags : docs[document_id].tags[i] = tag_id
    THEN docs
    ELSE [docs EXCEPT ![document_id].tags = Append(@, tag_id)]

\* InMemoryDB.add_tag_to_document
db_add_tag_to_document(docs, tgs, document_id, tag_id) ==
    IF document_id \notin DOMAIN docs \/ tag_id \notin DOMAIN tgs THEN docs
    ELSE IF \E i \in DOMAIN docs[document_id].tags : docs[document_id].tags[i] = tag_id
    THEN docs
    ELSE [docs EXCEPT ![document_id].tags = Append(@, tag_id)]

\* InMemoryDB.remove_tag_from_document
db_remove_tag_from_document(docs, document_id, tag_id) ==
    IF document_id \notin DOMAIN docs THEN docs
    ELSE [docs EXCEPT ![document_id].tags = WithoutTag(@, tag_id)]

----------------------------------------------------------------------------
(* api.py: helpers of the handlers *)

\* the HTTP outcome of a handler: HTTPException(status_code) or a return (200)
Raise(op, code) == [op |-> op, code |-> code]

\* create_document, tag resolution: every non-empty stripped name is looked up
\* ignoring case, created when absent, and appended to doc.tags
RECURSIVE ResolveTags(_, _, _, _)
ResolveTags(tag_names, tgs, next, doc_tags) ==
    IF tag_names = <<>> THEN [tags |-> tgs, next |-> next, doc_tags |-> doc_tags]
    ELSE LET tag_name == Head(tag_names)
             found == db_get_tag_by_name(tgs, tag_name)
         IN  IF tag_name = <<>>
             THEN ResolveTags(Tail(tag_names), tgs, next, doc_tags)
             ELSE IF found # None
             THEN ResolveTags(Tail(tag_names), tgs, next, Append(doc_tags, The(found)))
             ELSE ResolveTags(Tail(tag_names), db_create_tag(tgs, next, Tag(tag_name)),
                              next + 1, Append(doc_tags, next))

\* [t.strip() for t in tags.split(",")]
TagNames(tag_string) ==
    LET pieces == split(tag_string, ",")
    IN  [i \in DOMAIN pieces |-> strip(pieces[i])]

\* `if tags:` and the loop under it
ResolveTagString(tag_string, tgs, next) ==
    IF tag_string = None \/ tag_string = Some(<<>>)
    THEN [tags |-> tgs, next |-> next, doc_tags |-> <<>>]
    ELSE ResolveTags(TagNames(The(tag_string)), tgs, next, <<>>)

\* file.content_type or mimetypes.guess_type(filename)[0] or "application/octet-stream"
UploadMimeType(content_type, filename) ==
    IF content_type # None /\ content_type # Some("")
    THEN The(content_type)
    ELSE OrElse(guess_type(filename.ext), OctetStream)

\* a variant of the size check that compares with the archive limit
FileTooLarge_ZipLimit(file_size, st) == file_size > st.max_zip_size

\* create_document: `if file_size > settings.max_file_size`
FileTooLarge(file_size, st) == file_size > st.max_file_size

\* a variant of the archive branch without its size check
ArchiveTooLarge_Never(file_size, st) == FALSE

\* create_document, archive branch: `if file_size > settings.max_zip_size`
ArchiveTooLarge(file_size, st) == file_size > st.max_zip_size

\* the two HTTPException(status_code=413) of create_document, told apart by
\* the start of their detail
FileTooLargeDetail == "File too large"
ZipTooLargeDetail == "ZIP file too large"
TooLarge(detail) == [op |-> "create_document", code |-> 413, detail |-> detail]

\* os.path.basename(zip_info.filename): the name without its directory part
basename(name) == [stem |-> name.stem, ext |-> name.ext]

\* a variant of the entry filter that does not look at the entry's size
Survives_AnySize(zip_info, max_file_size) ==
    /\ ~zip_info.is_dir
    /\ LET file_mime_type == guess_type(zip_info.filename.ext)
       IN  /\ file_mime_type # None
           /\ \/ IsImageMime(The(file_mime_type))
              \/ The(file_mime_type) = "application/pdf"

\* a variant of the entry filter that does not look at the entry's type
Survives_AnyType(zip_info, max_file_size) ==
    /\ ~zip_info.is_dir
    /\ ~(zip_info.file_size > max_file_size)

\* create_document, archive loop: the entry passes the three `continue` tests
\* (directory, uncompressed size, guessed MIME type)
Survives(zip_info, max_file_size) ==
    /\ ~zip_info.is_dir
    /\ ~(zip_info.file_size > max_file_size)
    /\ LET file_mime_type == guess_type(zip_info.filename.ext)
       IN  /\ file_mime_type # None
           /\ \/ IsImageMime(The(file_mime_type))
              \/ The(file_mime_type) = "application/pdf"

\* the archive loop up to the next entry that is ingested
RECURSIVE SkipEntries(_, _)
SkipEntries(infolist, max_file_size) ==
    IF infolist = <<>> THEN <<>>
    ELSE IF Survives(Head(infolist), max_file_size) THEN infolist
    ELSE SkipEntries(Tail(infolist), max_file_size)

\* the entries of the list that the loop ingests
RECURSIVE Survivors(_, _)
Survivors(infolist, max_file_size) ==
    LET rest == SkipEntries(infolist, max_file_size)
    IN  IF rest = <<>> THEN <<>>
        ELSE <<Head(rest)>> \o Survivors(Tail(rest), max_file_size)

\* the locals of create_document the archive loop reads: the storage variant
\* and the settings fetched at the start of the request, the form fields, the
\* entries of the archive, those still to visit and the Documents created so far
ZipLocals(infolist, storage, st, tag_string, folder_path, ocr_engine) ==
    [infolist |-> infolist,
     rest |-> infolist,
     storage |-> storage,
     max_file_size |-> st.max_file_size,
     engine |-> OrElse(ocr_engine, st.default_ocr_engine),
     tags |-> tag_string,
     folder_path |-> folder_path,
     documents |-> <<>>,
     first_detached |-> None]

\* process_document_ocr up to its first await on storage: the lookup, the early
\* return for a missing document, and the PROCESSING update
\* a variant of the PROCESSING update that clears the results of the prior run
StartedStatus_ClearsResults(docs, document_id) ==
    db_update_document(docs, document_id,
                       [ocr_status |-> PROCESSING, ocr_text |-> None,
                        ocr_engine |-> None, ocr_engine_version |-> None])

StartedStatus_NoUpdate(docs, document_id) == docs

StartedStatus(docs, document_id) ==
    db_update_document(docs, document_id, [ocr_status |-> PROCESSING])

\* the frame of a process_document_ocr call that is past the PROCESSING update;
\* zip holds the locals of the archive loop of create_document when that loop
\* is the caller, and is None otherwise
Frame(document_id, file_path, engine, caller, zip) ==
    [doc |-> document_id, file_path |-> file_path, engine |-> engine,
     caller |-> caller, pc |-> "fetch", mime |-> None, detached |-> None,
     zip |-> zip]

\* a variant of the COMPLETED update that also empties the metadata bag
CompletedUpdate_ClearsMetadata(text, processor) ==
    [ocr_status |-> COMPLETED,
     ocr_text |-> Some(text),
     ocr_engine |-> Some(processor.name),
     ocr_engine_version |-> Some(processor.version),
     metadata |-> {}]

\* a variant of the COMPLETED update that writes the status and the text only
CompletedUpdate_TextOnly(text, processor) ==
    [ocr_status |-> COMPLETED, ocr_text |-> Some(text)]

\* a variant of the COMPLETED update that leaves the engine version out
CompletedUpdate_NoVersion(text, processor) ==
    [ocr_status |-> COMPLETED,
     ocr_text |-> Some(text),
     ocr_engine |-> Some(processor.name)]

\* the update of the COMPLETED transition
CompletedUpdate(text, processor) ==
    [ocr_status |-> COMPLETED,
     ocr_text |-> Some(text),
     ocr_engine |-> Some(processor.name),
     ocr_engine_version |-> Some(processor.version)]

\* a variant of the FAILED update that also clears the text of a prior run
FailedUpdate_ClearsText(error) ==
    [ocr_status |-> FAILED, metadata |-> {<<"error", error>>}, ocr_text |-> None]

\* a variant of the FAILED update that records the error and not the status
FailedUpdate_NoStatus(error) == [metadata |-> {<<"error", error>>}]

\* a variant of the FAILED update that records the status and not the error
FailedUpdate_NoMetadata(error) == [ocr_status |-> FAILED]

\* the update of the except branch: FAILED and metadata = {"error": str(e)}
FailedUpdate(error) ==
    [ocr_status |-> FAILED, metadata |-> {<<"error", error>>}]

\* what the awaiting handler returns once process_document_ocr is over:
\* create_document returns the Document object it stored (the one the index
\* updates in place, or as it was when it left the index), reocr_document a message
Returned(frame, docs) ==
    IF frame.caller = "create_document"
    THEN [op |-> "create_document", code |-> 200, id |-> frame.doc,
          ocr_status |-> IF frame.doc \in DOMAIN docs
                         THEN docs[frame.doc].ocr_status
                         ELSE The(frame.detached),
          archive |-> FALSE]
    ELSE [op |-> "reocr_document", code |-> 200, id |-> frame.doc]

\* the end of the archive branch: `return documents[0]`, or 400 when the loop
\* created nothing
ZipReturned(zip, docs) ==
    IF zip.documents = <<>> THEN Raise("create_document", 400)
    ELSE LET first == zip.documents[1]
         IN  [op |-> "create_document", code |-> 200, id |-> first,
              ocr_status |-> IF first \in DOMAIN docs
                             THEN docs[first].ocr_status
                             ELSE The(zip.first_detached),
              archive |-> TRUE]

WithoutRun(rs, r) == [x \in DOMAIN rs \ {r} |-> rs[x]]
WithRun(rs, r, frame) == [x \in DOMAIN rs \cup {r} |-> IF x = r THEN frame ELSE rs[x]]

\* search_documents (api.py 400-420): the comma-separated parameters become
\* lists of their non-empty stripped pieces, the page becomes an offset.  The
\* pieces of mime_types are given as they are after the split and the strip.
api_search_documents(docs, tgs, query) ==
    LET tag_list == IF query.tags = None \/ query.tags = Some(<<>>) THEN <<>>
                    ELSE SelectSeq(TagNames(The(query.tags)), LAMBDA t : t # <<>>)
        mime_type_list == IF query.mime_types = None THEN <<>>
                          ELSE SelectSeq(The(query.mime_types), LAMBDA t : t # "")
        skip == (query.page - 1) * query.page_size
    IN  db_search_documents(docs, tgs, query.q, tag_list, query.folder_path,
                            mime_type_list, query.date_from, query.date_to,
                            skip, query.page_size, query.sort_by, query.sort_order)

\* GET /documents/{id}/original, as a function of the state
\* list_folders: current_path after the first k non-empty parts
RECURSIVE FolderPath(_, _)
FolderPath(parts, k) ==
    IF k = 0 THEN <<"/">> ELSE FolderPath(parts, k - 1) \o parts[k] \o <<"/">>

\* list_folders, the loop over one Document: the root and the path after each
\* non-empty part of doc.folder_path.strip("/").split("/")
DocFolders(doc) ==
    LET parts == SelectSeq(split(strip_char(doc.folder_path, "/"), "/"),
                           LAMBDA part : part # <<>>)
    IN  {FolderPath(parts, k) : k \in 0..Len(parts)}

\* os.path.basename(folder.rstrip("/")) or "Root"
FolderName(folder) ==
    LET pieces == split(rstrip_char(folder, "/"), "/")
    IN  IF pieces[Len(pieces)] = <<>> THEN <<"R", "o", "o", "t">>
        ELSE pieces[Len(pieces)]

\* GET /folders: the entries of the list it returns, one for each folder the
\* loops over the Documents have added
list_folders(docs) ==
    LET folders == UNION {DocFolders(docs[d]) : d \in DOMAIN docs}
    IN  {[path |-> folder,
          name |-> FolderName(folder),
          document_count |->
              Cardinality({d \in DOMAIN docs : docs[d].folder_path = folder})] :
            folder \in folders}

\* GET /documents/{id}
get_document(docs, document_id) ==
    IF db_get_document(docs, document_id) = None
    THEN Raise("get_document", 404)
    ELSE [op |-> "get_document", code |-> 200, document |-> docs[document_id]]

get_document_original(docs, st, fs, document_id) ==
    IF db_get_document(docs, document_id) = None
    THEN Raise("get_document_original", 404)
    ELSE LET got == get_file(get_storage(st), fs, docs[document_id].file_path)
         IN  IF ~got.ok THEN Raise("get_document_original", 500)
             ELSE [op |-> "get_document_original", code |-> 200,
                   body |-> got.content, media_type |-> got.mime]

----------------------------------------------------------------------------
(* The requests the model issues *)

EmptyMap == <<>>

\* uploads of 1..MaxLen blocks, told apart by their length and their bytes
Contents == {[i \in 1..n |-> i] : n \in 1..MaxLen}

\* the single-file uploads: filename, declared content type, the tags form
\* field, the ocr_engine form field, and whether PIL can decode the bytes
Upload(stem, ext, content_type, tag_string, folder_path, ocr_engine, decodes, entries) ==
    [filename |-> [stem |-> stem, ext |-> ext], content_type |-> content_type,
     tags |-> tag_string, folder_path |-> folder_path, ocr_engine |-> ocr_engine,
     decodes |-> decodes, entries |-> entries]

\* Form("/"): the folder_path of a request that gives none
DefaultFolder == <<"/">>

\* one file each: s.png, Ri.png and d.pdf
Files ==
    {Upload(<<"s">>, ".png", None, None, DefaultFolder, None, TRUE, <<>>),
     Upload(<<"R", "i">>, ".png", Some("image/png"), Some(<<"R", ",", "i">>),
            <<"/", "a", "/">>, Some(PADDLEOCR), FALSE, <<>>),
     Upload(<<"d">>, ".pdf", Some("application/pdf"),
            Some(<<"r", ",", " ", "R", ",">>), <<"a">>, Some(EASYOCR), TRUE, <<>>)}

\* an entry of an archive: zip_info.filename, is_dir(), file_size, and the
\* bytes zip_file.open(zip_info) reads
ZipEntry(dir, stem, ext, is_dir, data) ==
    [filename |-> [dir |-> dir, stem |-> stem, ext |-> ext], is_dir |-> is_dir,
     file_size |-> Len(data), data |-> data]

\* b.zip: a directory, an image in it, a text file and a PDF; e.zip: a
\* directory, an image over the single-file limit and a text file
Archives ==
    {Upload(<<"b">>, ".zip", None, Some(<<"r">>), DefaultFolder, None, TRUE,
            <<ZipEntry(<<"x">>, <<>>, "", TRUE, <<>>),
              ZipEntry(<<"x">>, <<"a">>, ".png", FALSE, <<1>>),
              ZipEntry(<<>>, <<"n">>, ".txt", FALSE, <<1>>),
              ZipEntry(<<>>, <<"p">>, ".pdf", FALSE, <<2>>)>>),
     Upload(<<"e">>, ".zip", Some("application/zip"), Some(<<"i">>), <<"a">>,
            Some(EASYOCR), TRUE,
            <<ZipEntry(<<"x">>, <<>>, "", TRUE, <<>>),
              ZipEntry(<<>>, <<"g">>, ".png", FALSE, <<1, 2>>),
              ZipEntry(<<>>, <<"n">>, ".txt", FALSE, <<1>>)>>)}

Uploads == Files \cup Archives

\* page: int = 1, page_size: int = 20
DefaultPage == 1
DefaultPageSize == 20

\* the parameters of GET /search
Query(q, tag_string, folder_path, mime_types, date_from, date_to, sort_by, sort_order) ==
    [q |-> q, tags |-> tag_string, folder_path |-> folder_path,
     mime_types |-> mime_types, date_from |-> date_from, date_to |-> date_to,
     page |-> DefaultPage, page_size |-> DefaultPageSize,
     sort_by |-> sort_by, sort_order |-> sort_order]

\* every combination of the filters, in the default order
FilterQueries ==
    {Query(q, tag_string, folder_path, mime_types, dates[1], dates[2],
           "upload_date", "desc") :
        q \in {None, Some(<<"R">>)},
        tag_string \in {None, Some(<<",">>), Some(<<"r", ",", " ", "i">>)},
        folder_path \in {None, Some(<<"/", "a", "/">>)},
        mime_types \in {None, Some(<<"image/png", "">>)},
        dates \in {<<None, None>>, <<Some(2), None>>, <<None, Some(1)>>,
                   <<Some(1), Some(1)>>}}

\* no filter, in the other orders
SortQueries ==
    {Query(None, None, None, None, None, None, sort[1], sort[2]) :
        sort \in {<<"upload_date", "ASC">>, <<"filename", "asc">>,
                  <<"size", "DESC">>, <<"relevance", "desc">>}}

\* one tag name alone, in either letter case
TagQueries ==
    {Query(None, Some(name), None, None, None, None, "upload_date", "desc") :
        name \in {<<"r">>, <<"R">>}}

Queries == FilterQueries \cup SortQueries \cup TagQueries

\* the ocr_engine parameter of a re-OCR request
EngineArgs == {None, Some(EASYOCR), Some(PADDLEOCR), Some("bogus")}

\* the bodies of PUT /system/settings
SettingsInputs == {SystemSettings,
                   [SystemSettings EXCEPT !.storage_type = "s3"]}

\* and one whose archive limit is below its single-file limit
ArchiveSettingsInputs ==
    SettingsInputs
        \cup {[SystemSettings EXCEPT !.max_file_size = DefaultMaxFileSize + 1,
                                    !.max_zip_size = DefaultMaxFileSize]}

\* the uploads of the archive model: those of Contents and one of a block more
\* than the default archive limit
ArchiveContents == Contents \cup {[i \in 1..(DefaultMaxZipSize + 1) |-> i]}

\* tag names of POST /tags and PUT /tags/{id}
TagNameInputs == {<<"R">>, <<"r">>, <<"i">>}

Colors == {"#ff0000"}

DocIds == 1..MaxDocs
TagIds == 1..MaxTags

----------------------------------------------------------------------------
(* State machine *)

Init ==
    /\ documents = EmptyMap
    /\ tags = EmptyMap
    /\ settings = SystemSettings
    /\ files = EmptyMap
    /\ installed = {EASYOCR}
    /\ runs = EmptyMap
    /\ response = Raise("none", 0)
    /\ submitted = EmptyMap
    /\ nextDoc = 1
    /\ nextTag = 1
    /\ nextPath = 1
    /\ nextRun = 1
    /\ calls = 0

\* a request is accepted
Accept == calls < MaxCalls /\ calls' = calls + 1

\* ids the archive loops in flight will still draw: the bounds of the model
\* count them as taken, so that no loop waits for an id
RECURSIVE SumOver(_, _)
SumOver(f, S) ==
    IF S = {} THEN 0
    ELSE LET x == CHOOSE y \in S : TRUE IN f[x] + SumOver(f, S \ {x})

DistinctNames(tag_string) ==
    IF tag_string = None THEN 0
    ELSE Cardinality({lower(n) : n \in Range(TagNames(The(tag_string))) \ {<<>>}})

ReservedDocs(rs) ==
    SumOver([r \in DOMAIN rs |->
                IF rs[r].zip = None THEN 0
                ELSE Len(Survivors(The(rs[r].zip).rest, The(rs[r].zip).max_file_size))],
            DOMAIN rs)

ReservedTags(rs) ==
    SumOver([r \in DOMAIN rs |->
                IF rs[r].zip = None THEN 0
                ELSE IF SkipEntries(The(rs[r].zip).rest, The(rs[r].zip).max_file_size) = <<>>
                THEN 0
                ELSE DistinctNames(The(rs[r].zip).tags)],
            DOMAIN rs)

\* create_document, archive loop (api.py 68-124) from its current position up to
\* the first await on storage inside the next process_document_ocr call, or up
\* to the end of the handler; docs and rs are the index and the frames as the
\* step found or left them
ZipLoop(zip, docs, rs) ==
    LET rest == SkipEntries(zip.rest, zip.max_file_size)
    IN  IF rest = <<>>
        THEN /\ documents' = docs
             /\ runs' = rs
             /\ response' = ZipReturned(zip, docs)
             /\ UNCHANGED <<tags, files, submitted, nextDoc, nextTag, nextPath, nextRun>>
        ELSE LET zip_info == Head(rest)
                 file_mime_type == guess_type(zip_info.filename.ext)
                 saved == save_file(zip.storage, files, nextPath, zip_info.data,
                                    zip_info.filename)
                 resolved == ResolveTagString(zip.tags, tags, nextTag)
                 doc == [Document(basename(zip_info.filename), saved.path, None,
                                  OrElse(file_mime_type, OctetStream),
                                  zip_info.file_size, zip.folder_path, nextDoc)
                            EXCEPT !.tags = resolved.doc_tags]
                 locals == [zip EXCEPT !.rest = Tail(rest),
                                       !.documents = Append(@, nextDoc)]
             IN  /\ files' = saved.files
                 /\ nextPath' = nextPath + 1
                 /\ tags' = resolved.tags
                 /\ nextTag' = resolved.next
                 /\ documents' = StartedStatus(
                                    db_create_document(docs, nextDoc, doc), nextDoc)
                 /\ nextDoc' = nextDoc + 1
                 /\ submitted' = [d \in DOMAIN submitted \cup {nextDoc} |->
                                     IF d = nextDoc
                                     THEN [content |-> zip_info.data, tags |-> zip.tags]
                                     ELSE submitted[d]]
                 /\ runs' = WithRun(rs, nextRun,
                                    Frame(nextDoc, saved.path, zip.engine,
                                          "create_document", Some(locals)))
                 /\ nextRun' = nextRun + 1
                 /\ UNCHANGED response

\* POST /documents (api.py 42-163), up to the first await on storage inside
\* process_document_ocr
CreateDocument(content, filename, content_type, tag_string, folder_path, ocr_engine, decodes, entries) ==
    LET file_size == Len(content)
        storage == get_storage(settings)
        mime_type == UploadMimeType(content_type, filename)
        saved == save_file(storage, files, nextPath, content, filename)
        thumb == IF IsImageMime(mime_type)
                 THEN create_thumbnail(storage, saved.files, nextPath + 1,
                                       saved.path, decodes)
                 ELSE [path |-> None, files |-> saved.files]
        resolved == ResolveTagString(tag_string, tags, nextTag)
        doc == [Document(filename, saved.path, thumb.path, mime_type, file_size,
                         folder_path, nextDoc)
                    EXCEPT !.tags = resolved.doc_tags]
        engine == OrElse(ocr_engine, settings.default_ocr_engine)
    IN  /\ Accept
        /\ IF FileTooLarge(file_size, settings)
           THEN /\ response' = TooLarge(FileTooLargeDetail)
                /\ UNCHANGED <<documents, tags, settings, files, installed, runs,
                               submitted, nextDoc, nextTag, nextPath, nextRun>>
           ELSE IF mime_type = "application/zip"
           THEN IF ArchiveTooLarge(file_size, settings)
                THEN /\ response' = TooLarge(ZipTooLargeDetail)
                     /\ UNCHANGED <<documents, tags, settings, files, installed, runs,
                                    submitted, nextDoc, nextTag, nextPath, nextRun>>
                ELSE LET needed == Len(Survivors(entries, settings.max_file_size))
                     IN  /\ nextDoc - 1 + ReservedDocs(runs) + needed <= MaxDocs
                         /\ needed > 0 =>
                               nextTag - 1 + ReservedTags(runs)
                                   + DistinctNames(tag_string) <= MaxTags
                         /\ ZipLoop(ZipLocals(entries, storage, settings, tag_string,
                                              folder_path, ocr_engine),
                                    documents, runs)
                         /\ UNCHANGED <<settings, installed>>
           ELSE /\ nextDoc + ReservedDocs(runs) <= MaxDocs
                /\ resolved.next - 1 + ReservedTags(runs) <= MaxTags
                /\ files' = thumb.files
                /\ nextPath' = nextPath + (IF thumb.path = None THEN 1 ELSE 2)
                /\ tags' = resolved.tags
                /\ nextTag' = resolved.next
                /\ documents' = StartedStatus(
                                   db_create_document(documents, nextDoc, doc), nextDoc)
                /\ nextDoc' = nextDoc + 1
                /\ submitted' = [d \in DOMAIN submitted \cup {nextDoc} |->
                                    IF d = nextDoc THEN [content |-> content, tags |-> tag_string]
                                    ELSE submitted[d]]
                /\ runs' = WithRun(runs, nextRun,
                                   Frame(nextDoc, saved.path, engine, "create_document",
                                         None))
                /\ nextRun' = nextRun + 1
                /\ UNCHANGED <<settings, installed, response>>

\* the last update of process_document_ocr and the return to the handler that
\* awaits it: reocr_document and the single-file branch of create_document
\* return, the archive loop goes on
Settle(r, update_data) ==
    LET docs == db_update_document(documents, runs[r].doc, update_data)
    IN  IF runs[r].zip = None
        THEN /\ documents' = docs
             /\ response' = Returned(runs[r], docs)
             /\ runs' = WithoutRun(runs, r)
             /\ UNCHANGED <<tags, files, submitted, nextDoc, nextTag, nextPath, nextRun>>
        ELSE ZipLoop(The(runs[r].zip), docs, WithoutRun(runs, r))

\* the except branch of process_document_ocr
Fail(r, error) == Settle(r, FailedUpdate(error))

\* process_document_ocr: get_storage() and storage.get_file(doc.file_path)
OcrFetch(r) ==
    LET got == get_file(get_storage(settings), files, runs[r].file_path)
    IN  /\ r \in DOMAIN runs
        /\ runs[r].pc = "fetch"
        /\ IF got.ok
           THEN /\ runs' = [runs EXCEPT ![r].pc = "engine", ![r].mime = Some(got.mime)]
                /\ UNCHANGED <<documents, response, tags, files, submitted,
                               nextDoc, nextTag, nextPath, nextRun>>
           ELSE Fail(r, got.error)
        /\ UNCHANGED <<settings, installed, calls>>

\* process_document_ocr: get_ocr_processor(ocr_engine), then process_pdf or
\* process_image and the COMPLETED update, or the OCRError of the lookup or of
\* the engine (recognised = FALSE) and the FAILED update.  The lookup reads
\* nothing another request can change, so it is one step with the engine call.
OcrProcess(r, recognised) ==
    LET got == get_ocr_processor(runs[r].engine, installed)
    IN  /\ r \in DOMAIN runs
        /\ runs[r].pc = "engine"
        /\ IF ~got.ok THEN Fail(r, got.error)
           ELSE IF ~recognised THEN Fail(r, RecognitionError)
           ELSE Settle(r, CompletedUpdate(RecognisedText(The(runs[r].mime)), got))
        /\ UNCHANGED <<settings, installed, calls>>

\* a variant of reocr_document without the handler's own lookup: the call of
\* process_document_ocr returns at once for a missing document and the handler
\* answers that the processing started
reocr_document_NoLookup(docs, st, rs, next, document_id, ocr_engine) ==
    IF db_get_document(docs, document_id) = None
    THEN [response |-> Some([op |-> "reocr_document", code |-> 200]),
          documents |-> docs, runs |-> rs, nextRun |-> next]
    ELSE [response |-> None,
          documents |-> StartedStatus(docs, document_id),
          runs |-> WithRun(rs, next,
                           Frame(document_id, docs[document_id].file_path,
                                 OrElse(ocr_engine, st.default_ocr_engine),
                                 "reocr_document", None)),
          nextRun |-> next + 1]

\* reocr_document up to the first await on storage inside process_document_ocr:
\* the 404 of a missing document, or the run it starts; the response of a
\* started run is given when the run returns
reocr_document(docs, st, rs, next, document_id, ocr_engine) ==
    IF db_get_document(docs, document_id) = None
    THEN [response |-> Some(Raise("reocr_document", 404)),
          documents |-> docs, runs |-> rs, nextRun |-> next]
    ELSE [response |-> None,
          documents |-> StartedStatus(docs, document_id),
          runs |-> WithRun(rs, next,
                           Frame(document_id, docs[document_id].file_path,
                                 OrElse(ocr_engine, st.default_ocr_engine),
                                 "reocr_document", None)),
          nextRun |-> next + 1]

\* POST /documents/{id}/reocr
ReocrDocument(document_id, ocr_engine) ==
    LET out == reocr_document(documents, settings, runs, nextRun,
                              document_id, ocr_engine)
    IN  /\ Accept
        /\ documents' = out.documents
        /\ runs' = out.runs
        /\ nextRun' = out.nextRun
        /\ response' = IF out.response = None THEN response ELSE The(out.response)
        /\ UNCHANGED <<tags, settings, files, installed, submitted,
                       nextDoc, nextTag, nextPath>>

\* the Document objects a frame and the archive loop that awaits it still hold,
\* once the index has dropped the Document document_id
Detach(frame, document_id, ocr_status) ==
    LET own == IF frame.doc = document_id /\ frame.detached = None
               THEN [frame EXCEPT !.detached = Some(ocr_status)]
               ELSE frame
    IN  IF own.zip # None
           /\ The(own.zip).documents[1] = document_id
           /\ The(own.zip).first_detached = None
        THEN [own EXCEPT !.zip = Some([The(own.zip) EXCEPT
                                          !.first_detached = Some(ocr_status)])]
        ELSE own

\* DELETE /documents/{id}; the frames that still hold the Document object keep
\* it as it was when it left the index
DeleteDocument(document_id) ==
    /\ Accept
    /\ IF db_get_document(documents, document_id) = None
       THEN /\ response' = Raise("delete_document", 404)
            /\ UNCHANGED <<documents, files, runs>>
       ELSE LET doc == documents[document_id]
                storage == get_storage(settings)
                first == delete_file(storage, files, doc.file_path)
                second == IF doc.thumbnail_path # None
                          THEN delete_file(storage, first.files, The(doc.thumbnail_path))
                          ELSE first
            IN  /\ files' = second.files
                /\ documents' = db_delete_document(documents, document_id)
                /\ runs' = [r \in DOMAIN runs |->
                              Detach(runs[r], document_id, doc.ocr_status)]
                /\ response' = [op |-> "delete_document", code |-> 200]
    /\ UNCHANGED <<tags, settings, installed, submitted,
                   nextDoc, nextTag, nextPath, nextRun>>

\* GET /documents/{id}/original
GetDocumentOriginal(document_id) ==
    /\ Accept
    /\ response' = get_document_original(documents, settings, files, document_id)
    /\ UNCHANGED <<documents, tags, settings, files, installed, runs, submitted,
                   nextDoc, nextTag, nextPath, nextRun>>

\* POST /tags
CreateTag(name) ==
    /\ Accept
    /\ IF db_get_tag_by_name(tags, name) # None
       THEN /\ response' = Raise("create_tag", 400)
            /\ UNCHANGED <<tags, nextTag>>
       ELSE /\ nextTag + ReservedTags(runs) <= MaxTags
            /\ tags' = db_create_tag(tags, nextTag, Tag(name))
            /\ nextTag' = nextTag + 1
            /\ response' = [op |-> "create_tag", code |-> 200]
    /\ UNCHANGED <<documents, settings, files, installed, runs, submitted,
                   nextDoc, nextPath, nextRun>>

\* PUT /tags/{id}
UpdateTag(tag_id, name, color) ==
    /\ Accept
    /\ tags' = db_update_tag(tags, tag_id, name, color)
    /\ response' = IF tag_id \in DOMAIN tags THEN [op |-> "update_tag", code |-> 200]
                                             ELSE Raise("update_tag", 404)
    /\ UNCHANGED <<documents, settings, files, installed, runs, submitted,
                   nextDoc, nextTag, nextPath, nextRun>>

\* DELETE /tags/{id}
DeleteTag(tag_id) ==
    /\ Accept
    /\ tags' = db_delete_tag_tags(tags, tag_id)
    /\ documents' = db_delete_tag_documents(documents, tags, tag_id)
    /\ response' = IF tag_id \in DOMAIN tags THEN [op |-> "delete_tag", code |-> 200]
                                             ELSE Raise("delete_tag", 404)
    /\ UNCHANGED <<settings, files, installed, runs, submitted,
                   nextDoc, nextTag, nextPath, nextRun>>

\* POST /documents/{id}/tags/{tag_id}
AddTagToDocument(document_id, tag_id) ==
    /\ Accept
    /\ documents' = db_add_tag_to_document(documents, tags, document_id, tag_id)
    /\ response' = IF document_id \in DOMAIN documents /\ tag_id \in DOMAIN tags
                   THEN [op |-> "add_tag_to_document", code |-> 200]
                   ELSE Raise("add_tag_to_document", 404)
    /\ UNCHANGED <<tags, settings, files, installed, runs, submitted,
                   nextDoc, nextTag, nextPath, nextRun>>

\* DELETE /documents/{id}/tags/{tag_id}
RemoveTagFromDocument(document_id, tag_id) ==
    /\ Accept
    /\ documents' = db_remove_tag_from_document(documents, document_id, tag_id)
    /\ response' = IF document_id \in DOMAIN documents
                   THEN [op |-> "remove_tag_from_document", code |-> 200]
                   ELSE Raise("remove_tag_from_document", 404)
    /\ UNCHANGED <<tags, settings, files, installed, runs, submitted,
                   nextDoc, nextTag, nextPath, nextRun>>

\* GET /folders
ListFolders ==
    /\ Accept
    /\ response' = [op |-> "list_folders", code |-> 200,
                    folders |-> list_folders(documents)]
    /\ UNCHANGED <<documents, tags, settings, files, installed, runs, submitted,
                   nextDoc, nextTag, nextPath, nextRun>>

\* GET /search; the response is kept together with the query it answers
SearchDocuments(query) ==
    /\ Accept
    /\ response' = [op |-> "search_documents", code |-> 200, query |-> query,
                    results |-> api_search_documents(documents, tags, query)]
    /\ UNCHANGED <<documents, tags, settings, files, installed, runs, submitted,
                   nextDoc, nextTag, nextPath, nextRun>>

\* PUT /system/settings
UpdateSystemSettings(new_settings) ==
    /\ Accept
    /\ settings' = new_settings
    /\ response' = [op |-> "update_system_settings", code |-> 200]
    /\ UNCHANGED <<documents, tags, files, installed, runs, submitted,
                   nextDoc, nextTag, nextPath, nextRun>>

Next ==
    \/ \E content \in Contents, upload \in Files :
          CreateDocument(content, upload.filename, upload.content_type, upload.tags,
                         upload.folder_path, upload.ocr_engine, upload.decodes,
                         upload.entries)
    \/ \E r \in DOMAIN runs : OcrFetch(r)
    \/ \E r \in DOMAIN runs, recognised \in BOOLEAN : OcrProcess(r, recognised)
    \/ \E d \in DocIds, ocr_engine \in EngineArgs : ReocrDocument(d, ocr_engine)
    \/ \E d \in DocIds : DeleteDocument(d)
    \/ \E d \in DocIds : GetDocumentOriginal(d)
    \/ \E name \in TagNameInputs : CreateTag(name)
    \/ \E t \in TagIds, name \in {None} \cup {Some(n) : n \in TagNameInputs},
          color \in {None} \cup {Some(c) : c \in Colors} : UpdateTag(t, name, color)
    \/ \E t \in TagIds : DeleteTag(t)
    \/ \E d \in DocIds, t \in TagIds : AddTagToDocument(d, t)
    \/ \E d \in DocIds, t \in TagIds : RemoveTagFromDocument(d, t)
    \/ \E s \in SettingsInputs : UpdateSystemSettings(s)

Spec == Init /\ [][Next]_vars

\* every step of an OCR run that is in flight
RunStep ==
    \/ \E r \in DOMAIN runs : OcrFetch(r)
    \/ \E r \in DOMAIN runs, recognised \in BOOLEAN : OcrProcess(r, recognised)

\* the event loop resumes every coroutine whose awaited call has returned or raised
FairSpec == Spec /\ WF_vars(RunStep)

\* single files throughout: ingestion and OCR only, no request touches the tag
\* index but create_document
NextIngest ==
    \/ \E content \in Contents, upload \in Files :
          CreateDocument(content, upload.filename, upload.content_type, upload.tags,
                         upload.folder_path, upload.ocr_engine, upload.decodes,
                         upload.entries)
    \/ \E r \in DOMAIN runs : OcrFetch(r)
    \/ \E r \in DOMAIN runs, recognised \in BOOLEAN : OcrProcess(r, recognised)
    \/ \E d \in DocIds, ocr_engine \in EngineArgs : ReocrDocument(d, ocr_engine)
    \/ \E d \in DocIds : DeleteDocument(d)
    \/ \E s \in SettingsInputs : UpdateSystemSettings(s)

SpecIngest == Init /\ [][NextIngest]_vars

\* ingestion of single files and of archives, OCR, deletion of Documents,
\* settings updates and folder listings
NextArchive ==
    \/ \E content \in ArchiveContents, upload \in Uploads :
          CreateDocument(content, upload.filename, upload.content_type, upload.tags,
                         upload.folder_path, upload.ocr_engine, upload.decodes,
                         upload.entries)
    \/ \E r \in DOMAIN runs : OcrFetch(r)
    \/ \E r \in DOMAIN runs, recognised \in BOOLEAN : OcrProcess(r, recognised)
    \/ \E d \in DocIds : DeleteDocument(d)
    \/ \E s \in ArchiveSettingsInputs : UpdateSystemSettings(s)
    \/ ListFolders

SpecArchive == Init /\ [][NextArchive]_vars

\* ingestion of single files, OCR, and searches
NextSearch ==
    \/ \E content \in Contents, upload \in Files :
          CreateDocument(content, upload.filename, upload.content_type, upload.tags,
                         upload.folder_path, upload.ocr_engine, upload.decodes,
                         upload.entries)
    \/ \E r \in DOMAIN runs : OcrFetch(r)
    \/ \E r \in DOMAIN runs, recognised \in BOOLEAN : OcrProcess(r, recognised)
    \/ \E query \in Queries : SearchDocuments(query)

SpecSearch == Init /\ [][NextSearch]_vars

----------------------------------------------------------------------------
(* Properties *)

Terminal == {COMPLETED, FAILED}

\* some OCR run for document d is in flight
InFlight(d) == \E r \in DOMAIN runs : runs[r].doc = d

\* run r takes its last step: its frame is in flight before and gone after
Finishes(r) == r \in DOMAIN runs /\ r \notin DOMAIN runs' /\ calls' = calls

\* the non-empty tag names the upload request of document d carried
RequestedNames(d) ==
    IF submitted[d].tags = None THEN {}
    ELSE {n \in Range(TagNames(The(submitted[d].tags))) : n # <<>>}

\* the tags of the index whose name equals n ignoring case
SameName(tgs, n) == {t \in DOMAIN tgs : lower(tgs[t].name) = lower(n)}

\* C1: when create_document returns a Document for a single-file upload, the
\* returned Document's ocr_status is PENDING.
C1_ReturnsPending ==
    (response.op = "create_document" /\ response.code = 200)
        => response.ocr_status = PENDING

\* C2 as stated: for every Document of the index, each of ocr_text, ocr_engine
\* and ocr_engine_version is populated iff ocr_status is COMPLETED.
C2_PopulatedIffCompleted ==
    \A d \in DOMAIN documents :
        /\ documents[d].ocr_text # None <=> documents[d].ocr_status = COMPLETED
        /\ documents[d].ocr_engine # None <=> documents[d].ocr_status = COMPLETED
        /\ documents[d].ocr_engine_version # None
               <=> documents[d].ocr_status = COMPLETED

\* C2 amended: a COMPLETED Document has ocr_text, ocr_engine and
\* ocr_engine_version populated, and the three are populated together or not at
\* all; they may stay populated in PROCESSING or FAILED after a re-OCR.
C2_CompletedImpliesPopulated ==
    \A d \in DOMAIN documents :
        /\ documents[d].ocr_status = COMPLETED => documents[d].ocr_text # None
        /\ documents[d].ocr_text = None <=> documents[d].ocr_engine = None
        /\ documents[d].ocr_engine = None <=> documents[d].ocr_engine_version = None

\* C2 witness: a re-OCR of a completed Document has failed and the fields of
\* the earlier run are still there.
C2_Witness ==
    \E d \in DOMAIN documents :
        /\ documents[d].ocr_status = FAILED
        /\ documents[d].ocr_text # None
        /\ documents[d].ocr_engine # None
        /\ documents[d].ocr_engine_version # None

\* C3: a Document that a run has settled in COMPLETED or FAILED, with no run of
\* it in flight, keeps its ocr_status in every step in which it stays in the
\* index, except the step of a reocr_document request for its id.
C3_SettledStatusStable ==
    [][\A d \in DOMAIN documents :
          (/\ documents[d].ocr_status \in Terminal
           /\ ~InFlight(d)
           /\ d \in DOMAIN documents')
          => \/ documents'[d].ocr_status = documents[d].ocr_status
             \/ /\ nextRun' = nextRun + 1
                /\ nextRun \in DOMAIN runs'
                /\ runs'[nextRun].doc = d
                /\ runs'[nextRun].caller = "reocr_document"]_vars

\* C3 witness: a tag request was served after a run settled a Document.
C3_Witness ==
    /\ response.op \in {"add_tag_to_document", "remove_tag_from_document",
                        "delete_tag", "update_tag"}
    /\ response.code = 200
    /\ \E d \in DOMAIN documents :
          /\ documents[d].ocr_status \in Terminal
          /\ ~InFlight(d)
          /\ documents[d].tags # <<>>

\* C4: a Document whose status is PENDING or PROCESSING eventually is COMPLETED
\* or FAILED, or has left the index.
C4_RunsSettle ==
    \A d \in DocIds :
        (d \in DOMAIN documents /\ documents[d].ocr_status \in {PENDING, PROCESSING})
            ~> (d \notin DOMAIN documents \/ documents[d].ocr_status \in Terminal)

\* C4 witness: a run whose storage fetch failed has settled its Document.
C4_Witness ==
    \E d \in DOMAIN documents :
        /\ documents[d].ocr_status = FAILED
        /\ documents[d].metadata = {<<"error", S3NotImplemented>>}
        /\ ~InFlight(d)

\* C5: every step of a run whose Document has left the index changes no
\* Document, no Tag and no stored object, does not put the Document back, and
\* the run's last step returns to its handler without an error.
C5_DeletedInFlightDiscarded ==
    [][\A r \in DOMAIN runs :
          (/\ calls' = calls
           /\ runs[r].doc \notin DOMAIN documents
           /\ (r \notin DOMAIN runs' \/ runs'[r] # runs[r]))
          => /\ documents' = documents
             /\ tags' = tags
             /\ files' = files
             /\ r \notin DOMAIN runs' => response'.code = 200]_vars

\* C5 witness: create_document has returned for a Document that was deleted
\* while its run was in flight.
C5_Witness ==
    /\ response.op = "create_document"
    /\ response.code = 200
    /\ response.id \notin DOMAIN documents

\* C6: a run that ends on a failed storage fetch, a failed engine lookup or a
\* failed recognition leaves its Document FAILED with the error description
\* under "error" in metadata, and returns to its handler without an error.
C6_FailuresBecomeFailed ==
    [][\A r \in DOMAIN runs :
          (Finishes(r) /\ runs[r].doc \in DOMAIN documents)
          => LET d == runs[r].doc
                 fetched == get_file(get_storage(settings), files, runs[r].file_path)
                 looked == get_ocr_processor(runs[r].engine, installed)
                 FailedWith(e) == /\ documents'[d].ocr_status = FAILED
                                  /\ documents'[d].metadata = {<<"error", e>>}
             IN  /\ response'.code = 200
                 /\ d \in DOMAIN documents'
                 /\ runs[r].pc = "fetch" => FailedWith(fetched.error)
                 /\ (runs[r].pc = "engine" /\ ~looked.ok) => FailedWith(looked.error)
                 /\ (runs[r].pc = "engine" /\ looked.ok)
                       => \/ documents'[d].ocr_status = COMPLETED
                          \/ FailedWith(RecognitionError)]_vars

\* C6 witness: the lookup of an engine that is not installed has failed a run.
C6_Witness ==
    \E d \in DOMAIN documents :
        /\ documents[d].ocr_status = FAILED
        /\ documents[d].metadata = {<<"error", PaddleOcrMissing>>}
        /\ response.code = 200

\* C7: a create_document request whose bytes exceed max_file_size is answered
\* 413 and leaves storage, the documents and the tags as they were.
C7_OversizedRejectedBeforeWrite ==
    [][\A content \in Contents, upload \in Uploads :
          (/\ Len(content) > settings.max_file_size
           /\ CreateDocument(content, upload.filename, upload.content_type,
                             upload.tags, upload.folder_path, upload.ocr_engine,
                             upload.decodes, upload.entries))
          => /\ response' = TooLarge(FileTooLargeDetail)
             /\ files' = files
             /\ documents' = documents
             /\ tags' = tags]_vars

\* C7 witness: an oversized upload has been rejected.
C7_Witness ==
    /\ response = TooLarge(FileTooLargeDetail)
    /\ \E content \in Contents : Len(content) > settings.max_file_size

\* C8: for every Document of the index, get_document_original returns the
\* bytes its upload request carried.
C8_RoundTrip ==
    \A d \in DOMAIN documents :
        LET got == get_document_original(documents, settings, files, d)
        IN  got.code = 200 /\ got.body = submitted[d].content

\* C9: after any number of ingestions, each requested tag name matches, ignoring
\* case, exactly one Tag of the index, and every Document that requested it
\* holds that Tag.
C9_OneTagPerName ==
    \A d \in DOMAIN submitted :
        \A n \in RequestedNames(d) :
            /\ Cardinality(SameName(tags, n)) = 1
            /\ d \in DOMAIN documents
                  => \E i \in DOMAIN documents[d].tags :
                        documents[d].tags[i] \in SameName(tags, n)

\* C9 witness: two Documents were ingested with names that differ only in
\* letter case.
C9_Witness ==
    \E d1, d2 \in DOMAIN documents :
        \E n1 \in RequestedNames(d1), n2 \in RequestedNames(d2) :
            /\ d1 # d2
            /\ n1 # n2
            /\ lower(n1) = lower(n2)

\* C10: no two Tags of the index have names that are equal ignoring case.
C10_UniqueTagNames ==
    \A t1, t2 \in DOMAIN tags :
        lower(tags[t1].name) = lower(tags[t2].name) => t1 = t2

\* C11: a delete_tag request for a Tag of the index answers 200, removes the
\* Tag from the index and from the tag list of every Document, and leaves the
\* other Tags and the other fields of every Document as they were; a tag id
\* that was handed out and is not in the index stays out of it, and update_tag
\* and delete_tag for it answer 404.
C11_DeleteTagCascades ==
    [][\A t \in TagIds :
          /\ (t \in DOMAIN tags /\ DeleteTag(t))
                => /\ response' = [op |-> "delete_tag", code |-> 200]
                   /\ DOMAIN tags' = DOMAIN tags \ {t}
                   /\ \A u \in DOMAIN tags' : tags'[u] = tags[u]
                   /\ DOMAIN documents' = DOMAIN documents
                   /\ \A d \in DOMAIN documents :
                         /\ documents'[d].tags
                               = SelectSeq(documents[d].tags, LAMBDA x : x # t)
                         /\ [documents'[d] EXCEPT !.tags = documents[d].tags]
                               = documents[d]
          /\ (t < nextTag /\ t \notin DOMAIN tags)
                => /\ t \notin DOMAIN tags'
                   /\ DeleteTag(t) => response'.code = 404
                   /\ \A name \in TagNameInputs, color \in Colors :
                         UpdateTag(t, Some(name), Some(color))
                             => response'.code = 404]_vars

\* C11 witness: delete_tag has removed a Tag that two Documents were ingested
\* with.
C11_Witness ==
    /\ response = [op |-> "delete_tag", code |-> 200]
    /\ \E d1, d2 \in DOMAIN documents :
          /\ d1 # d2
          /\ \E n \in RequestedNames(d1) \cap RequestedNames(d2) :
                SameName(tags, n) = {}

\* an archive entry that is not a directory, whose uncompressed size is within
\* the single-file limit and whose name is that of an image or a PDF
Qualifies(zip_info, limit) ==
    /\ zip_info.is_dir = FALSE
    /\ zip_info.file_size <= limit
    /\ zip_info.filename.ext \in {".png", ".pdf"}

\* the archive loop of create_document returns: the run it awaited is over and
\* no further run starts
ArchiveReturns(r) ==
    /\ r \in DOMAIN runs
    /\ runs[r].zip # None
    /\ r \notin DOMAIN runs'
    /\ nextRun' = nextRun
    /\ calls' = calls

\* C12: when the archive branch of create_document returns, the Documents it
\* created are as many as the entries of the archive that qualify, they are
\* distinct, and every step that creates a Document starts an OCR run for it.
C12_ArchiveCount ==
    [][/\ \A r \in DOMAIN runs :
             ArchiveReturns(r)
                => LET zip == The(runs[r].zip)
                   IN  /\ Len(zip.documents)
                             = Cardinality({i \in DOMAIN zip.infolist :
                                   Qualifies(zip.infolist[i], zip.max_file_size)})
                       /\ Cardinality(Range(zip.documents)) = Len(zip.documents)
                       /\ response'.op = "create_document"
                       /\ response'.code = 200
       /\ \A content \in Contents, upload \in Archives :
             (/\ Len(content) <= settings.max_file_size
              /\ Len(content) <= settings.max_zip_size
              /\ CreateDocument(content, upload.filename, upload.content_type,
                                upload.tags, upload.folder_path, upload.ocr_engine,
                                upload.decodes, upload.entries))
                => (nextDoc' = nextDoc)
                      = ({i \in DOMAIN upload.entries :
                            Qualifies(upload.entries[i], settings.max_file_size)} = {})
       /\ nextDoc' # nextDoc
             => /\ nextDoc' = nextDoc + 1
                /\ nextDoc \in DOMAIN documents'
                /\ nextRun' = nextRun + 1
                /\ nextRun \in DOMAIN runs'
                /\ runs'[nextRun].doc = nextDoc]_vars

\* C12 witness: the archive branch has returned after it created two Documents
\* and both are in the index.
C12_Witness ==
    /\ response.op = "create_document"
    /\ response.code = 200
    /\ response.archive
    /\ \E d1, d2 \in DOMAIN documents :
          /\ d1 # d2
          /\ submitted[d1].content = <<1>>
          /\ submitted[d2].content = <<2>>
          /\ documents[d1].filename.ext = ".png"
          /\ documents[d2].filename.ext = ".pdf"
          /\ ~InFlight(d1)
          /\ ~InFlight(d2)

\* C13: a create_document request with an archive within the size limits in
\* which no entry qualifies is answered 400 and leaves the documents, the tags
\* and storage as they were.
C13_EmptyArchiveRejected ==
    [][\A content \in Contents, upload \in Archives :
          (/\ Len(content) <= settings.max_file_size
           /\ Len(content) <= settings.max_zip_size
           /\ \A i \in DOMAIN upload.entries :
                 ~Qualifies(upload.entries[i], settings.max_file_size)
           /\ CreateDocument(content, upload.filename, upload.content_type,
                             upload.tags, upload.folder_path, upload.ocr_engine,
                             upload.decodes, upload.entries))
          => /\ response' = Raise("create_document", 400)
             /\ documents' = documents
             /\ tags' = tags
             /\ files' = files
             /\ runs' = runs]_vars

\* C13 witness: an archive without a qualifying entry has been rejected.
C13_Witness ==
    /\ response = Raise("create_document", 400)
    /\ calls > 0

\* the names a comma-separated tags parameter asks for
AskedNames(tag_string) ==
    IF tag_string = None THEN {}
    ELSE {n \in Range(TagNames(The(tag_string))) : n # <<>>}

\* the MIME types a mime_types parameter asks for
AskedMimes(mime_types) ==
    IF mime_types = None THEN {} ELSE Range(The(mime_types)) \ {""}

\* the Document satisfies every filter the query gives
Satisfies(doc, query) ==
    /\ \/ query.q = None
       \/ Contains(lower(FilenameChars(doc.filename)), lower(The(query.q)))
       \/ /\ doc.ocr_text # None
          /\ Contains(lower(The(doc.ocr_text)), lower(The(query.q)))
    /\ \/ AskedNames(query.tags) = {}
       \/ \E i \in DOMAIN doc.tags : tags[doc.tags[i]].name \in AskedNames(query.tags)
    /\ \/ query.folder_path = None
       \/ doc.folder_path = The(query.folder_path)
    /\ \/ AskedMimes(query.mime_types) = {}
       \/ doc.mime_type \in AskedMimes(query.mime_types)
    /\ \/ query.date_from = None
       \/ doc.upload_date >= The(query.date_from)
    /\ \/ query.date_to = None
       \/ doc.upload_date <= The(query.date_to)

\* C14: a search returns, each once, exactly the Documents of the index that
\* satisfy every filter the query gives: the text in the file name or in the
\* extracted text ignoring case, one of the asked tag names, the folder path,
\* one of the asked MIME types, the upload date within the inclusive range.
C14_SearchIsConjunction ==
    [][(response'.op = "search_documents" /\ response' # response)
        => /\ Range(response'.results)
                 = {d \in DOMAIN documents : Satisfies(documents[d], response'.query)}
           /\ Cardinality(Range(response'.results)) = Len(response'.results)]_vars

\* C14 witness: a search with a text, tag names and MIME types has returned
\* one of the two tagged Documents of the index, one of which has extracted
\* text.
C14_Witness ==
    /\ response.op = "search_documents"
    /\ response.query.q # None
    /\ AskedNames(response.query.tags) # {}
    /\ AskedMimes(response.query.mime_types) # {}
    /\ Len(response.results) = 1
    /\ Cardinality(DOMAIN documents) = 2
    /\ \A d \in DOMAIN documents : documents[d].tags # <<>>
    /\ \E d \in DOMAIN documents : documents[d].ocr_text # None

\* the stored objects no Document of the index points to
Orphans ==
    {p \in DOMAIN files :
        \A d \in DOMAIN documents :
            /\ documents[d].file_path # p
            /\ documents[d].thumbnail_path # Some(p)}

\* C15: deleting a Document of the index succeeds and removes its record
\* whatever the storage deletion did, also when the stored bytes stay behind:
\* the id is absent from the index afterwards and a get of it fails with 404.
C15_DeleteRemovesRecord ==
    [][\A d \in DocIds :
          (DeleteDocument(d) /\ d \in DOMAIN documents)
              => /\ response' = [op |-> "delete_document", code |-> 200]
                 /\ d \notin DOMAIN documents'
                 /\ DOMAIN documents' = DOMAIN documents \ {d}
                 /\ get_document(documents', d) = Raise("get_document", 404)]_vars

\* C15 witness: a Document that was ingested has been deleted while the
\* storage deletion returned false: its bytes are still stored.
C15_Witness ==
    /\ response = [op |-> "delete_document", code |-> 200]
    /\ \E d \in DOMAIN submitted : d \notin DOMAIN documents
    /\ documents = EmptyMap
    /\ Orphans # {}

\* C16: every Document of the index has a folder_path that starts with "/"
\* and ends with "/".
C16_FolderPathSlashes ==
    \A d \in DOMAIN documents :
        LET folder_path == documents[d].folder_path
        IN  /\ folder_path # <<>>
            /\ folder_path[1] = "/"
            /\ folder_path[Len(folder_path)] = "/"

\* C17: fetching the original bytes fails with 404 both when the id is not in
\* the index and when the Document is there but its stored object is missing.
C17_OriginalNotFound ==
    [][\A d \in DocIds :
          (/\ GetDocumentOriginal(d)
           /\ \/ d \notin DOMAIN documents
              \/ documents[d].file_path \notin DOMAIN files)
              => response' = Raise("get_document_original", 404)]_vars

\* C18: a re-OCR request for an id that is not in the index fails with 404 and
\* changes nothing: no Document is created or modified, no tag, stored object
\* or setting changes, and no OCR run is started or moved.
C18_ReocrMissingChangesNothing ==
    [][\A d \in DocIds, ocr_engine \in EngineArgs :
          (ReocrDocument(d, ocr_engine) /\ d \notin DOMAIN documents)
              => /\ response' = [op |-> "reocr_document", code |-> 404]
                 /\ UNCHANGED <<documents, runs, nextRun, tags, files, settings,
                                installed, submitted>>]_vars

\* C18 witness: a re-OCR request has been refused with 404 while the index
\* holds another Document and an OCR run is in flight.
C18_Witness ==
    /\ response = [op |-> "reocr_document", code |-> 404]
    /\ documents # EmptyMap
    /\ DOMAIN runs # {}

\* what a caller sees of one storage variant when it saves an upload, fetches
\* it, deletes it, and fetches and deletes it once more
StorageOutcomes(storage, fs, n, data, filename) ==
    LET saved == save_file(storage, fs, n, data, filename)
        got == get_file(storage, saved.files, saved.path)
        deleted == delete_file(storage, saved.files, saved.path)
        again == get_file(storage, deleted.files, saved.path)
        twice == delete_file(storage, deleted.files, saved.path)
    IN  [fetched |-> IF got.ok THEN Some(got.content) ELSE None,
         deleted |-> deleted.deleted,
         fetched_after |-> IF again.ok THEN "found" ELSE again.error,
         deleted_twice |-> twice.deleted]

\* C19: the two storage variants behave alike: on either, whatever is stored
\* already, the fetch of a saved path yields the saved bytes, its delete
\* returns true, and afterwards the fetch fails as not found and the delete
\* returns false.
C19_StorageVariantsAgree ==
    \A data \in Contents, upload \in Files, storage \in {"local", "s3"} :
        StorageOutcomes(storage, files, nextPath, data, upload.filename)
            = [fetched |-> Some(data), deleted |-> TRUE,
               fetched_after |-> StorageNotFound, deleted_twice |-> FALSE]

\* the local variant alone does behave so
C19_LocalStorageHolds ==
    \A data \in Contents, upload \in Files :
        StorageOutcomes("local", files, nextPath, data, upload.filename)
            = [fetched |-> Some(data), deleted |-> TRUE,
               fetched_after |-> StorageNotFound, deleted_twice |-> FALSE]

\* C20: an OCR run records PROCESSING in the index before its storage fetch and
\* before any engine call: a run enters with the status of its Document
\* recorded as PROCESSING, and no run that is about to fetch or to call its
\* engine belongs to a Document of the index whose status is still PENDING.
C20_ProcessingBeforeEngine ==
    /\ [](\A r \in DOMAIN runs :
             runs[r].doc \in DOMAIN documents
                 => documents[runs[r].doc].ocr_status # PENDING)
    /\ [][\A r \in DOMAIN runs' \ DOMAIN runs :
             /\ runs'[r].pc = "fetch"
             /\ runs'[r].doc \in DOMAIN documents'
             /\ documents'[runs'[r].doc].ocr_status = PROCESSING]_vars

\* C20 witness: a run has fetched the bytes and is about to call its engine,
\* and the index holds its Document as PROCESSING.
C20_Witness ==
    \E r \in DOMAIN runs :
        /\ runs[r].pc = "engine"
        /\ runs[r].doc \in DOMAIN documents
        /\ documents[runs[r].doc].ocr_status = PROCESSING

\* C21: a re-OCR request on a Document of the index restarts its status from
\* PENDING: the request finds the status PENDING or sets it to PENDING before
\* the run records PROCESSING.
C21_ReocrRestartsFromPending ==
    [][\A d \in DocIds, ocr_engine \in EngineArgs :
          (ReocrDocument(d, ocr_engine) /\ d \in DOMAIN documents)
              => \/ documents[d].ocr_status = PENDING
                 \/ documents'[d].ocr_status = PENDING]_vars

\* the results of the last completed run of a Document
OcrResults(doc) == <<doc.ocr_text, doc.ocr_engine, doc.ocr_engine_version>>

\* C22: ocr_text, ocr_engine and ocr_engine_version of a Document of the index
\* change only in a step that records COMPLETED: the PROCESSING update of a
\* re-OCR run and the FAILED update leave the three fields as they were.
C22_ResultsChangeOnlyOnCompleted ==
    [][\A d \in DOMAIN documents \cap DOMAIN documents' :
          OcrResults(documents'[d]) # OcrResults(documents[d])
              => /\ documents'[d].ocr_status = COMPLETED
                 /\ \E r \in DOMAIN runs : runs[r].doc = d /\ r \notin DOMAIN runs']_vars

\* C22 witness: a re-OCR run of a Document with results of a prior run has
\* ended in FAILED and the three fields are still set.
C22_Witness ==
    \E d \in DOMAIN documents :
        /\ documents[d].ocr_status = FAILED
        /\ documents[d].ocr_text # None
        /\ documents[d].ocr_engine # None
        /\ documents[d].ocr_engine_version # None

\* a re-OCR run of a Document with results of a prior run is in flight and the
\* three fields are still set
C22_WitnessProcessing ==
    \E d \in DOMAIN documents :
        /\ documents[d].ocr_status = PROCESSING
        /\ documents[d].ocr_text # None
        /\ documents[d].ocr_engine # None
        /\ documents[d].ocr_engine_version # None

\* the metadata bag carries an error description
CarriesError(doc) == \E pair \in doc.metadata : pair[1] = "error"

\* C23 as stated: every Document whose status is FAILED carries the error
\* description in its metadata and has no ocr_text.
C23_FailedHasNoText ==
    \A d \in DOMAIN documents :
        documents[d].ocr_status = FAILED
            => CarriesError(documents[d]) /\ documents[d].ocr_text = None

\* C23: a run that ends in FAILED puts the error description in the metadata
\* of its Document and leaves ocr_text as it was: unset when no run of the
\* Document completed before, the text of the last completed run otherwise.
C23_FailedKeepsText ==
    /\ [][\A d \in DOMAIN documents \cap DOMAIN documents' :
             (/\ documents'[d].ocr_status = FAILED
              /\ \E r \in DOMAIN runs : runs[r].doc = d /\ r \notin DOMAIN runs')
                 => /\ CarriesError(documents'[d])
                    /\ documents'[d].ocr_text = documents[d].ocr_text]_vars
    /\ [](\A d \in DOMAIN documents :
             (documents[d].ocr_status = FAILED /\ documents[d].ocr_engine = None)
                 => CarriesError(documents[d]) /\ documents[d].ocr_text = None)

\* C23 witness: the first run of a Document has ended in FAILED, with the error
\* in the metadata and no text.
C23_Witness ==
    \E d \in DOMAIN documents :
        /\ documents[d].ocr_status = FAILED
        /\ CarriesError(documents[d])
        /\ documents[d].ocr_engine = None
        /\ documents[d].ocr_text = None
        /\ \A r \in DOMAIN runs : runs[r].doc # d

\* the uploads whose MIME type is application/zip
IsZipUpload(upload) ==
    UploadMimeType(upload.content_type, upload.filename) = "application/zip"

\* C24 as stated: an application/zip upload whose size exceeds max_zip_size is
\* rejected with the ZIP-too-large error, whatever the two limits are.
C24_ArchiveTooLargeError ==
    [][\A content \in ArchiveContents, upload \in Uploads :
          (/\ IsZipUpload(upload)
           /\ Len(content) > settings.max_zip_size
           /\ CreateDocument(content, upload.filename, upload.content_type,
                             upload.tags, upload.folder_path, upload.ocr_engine,
                             upload.decodes, upload.entries))
              => response' = TooLarge(ZipTooLargeDetail)]_vars

\* C24: an application/zip upload whose size exceeds max_zip_size is rejected
\* with 413 and nothing is written; the error is the ZIP-too-large one when
\* the size is within max_file_size, and the file-too-large one of the first
\* check otherwise.
C24_ArchiveRejected ==
    [][\A content \in ArchiveContents, upload \in Uploads :
          (/\ IsZipUpload(upload)
           /\ Len(content) > settings.max_zip_size
           /\ CreateDocument(content, upload.filename, upload.content_type,
                             upload.tags, upload.folder_path, upload.ocr_engine,
                             upload.decodes, upload.entries))
              => /\ response' = TooLarge(IF Len(content) > settings.max_file_size
                                         THEN FileTooLargeDetail
                                         ELSE ZipTooLargeDetail)
                 /\ UNCHANGED <<documents, tags, files, runs>>]_vars

\* C24 witness: an archive within the single-file limit and above the archive
\* limit has been rejected with the ZIP-too-large error.
C24_Witness ==
    /\ response = TooLarge(ZipTooLargeDetail)
    /\ settings.max_zip_size < settings.max_file_size

\* C25: the Document the archive loop creates for an entry has a thumbnail
\* whenever the single-file path would derive one from the same stored bytes:
\* create_thumbnail on the entry's stored object, for bytes PIL can decode.
C25_ArchiveEntryThumbnail ==
    [][\A r \in DOMAIN runs' \ DOMAIN runs :
          runs'[r].zip # None
              => LET doc == documents'[runs'[r].doc]
                     single == create_thumbnail(The(runs'[r].zip).storage, files',
                                                nextPath', doc.file_path, TRUE)
                 IN  (IsImageMime(doc.mime_type) /\ single.path # None)
                         => doc.thumbnail_path # None]_vars

\* C26: after delete_document has succeeded for a Document, the stored object
\* at its file_path and the thumbnail at its thumbnail_path are no longer in
\* the storage that held them.
C26_DeleteRemovesBytes ==
    [][\A d \in DocIds :
          (DeleteDocument(d) /\ d \in DOMAIN documents)
              => /\ documents[d].file_path \notin DOMAIN files'
                 /\ \A p \in documents[d].thumbnail_path : p \notin DOMAIN files']_vars

\* the root folder
RootFolder == <<"/">>

\* the prefixes of the folder paths of the Documents of the index
AllFolderPrefixes == UNION {DocFolders(documents[d]) : d \in DOMAIN documents}

\* C27: list_folders returns exactly the prefixes of the folder paths of the
\* Documents of the index together with the root "/", also when the index
\* holds no Document.
C27_FoldersIncludeRoot ==
    [][ListFolders
          => {folder.path : folder \in response'.folders}
                 = AllFolderPrefixes \cup {RootFolder}]_vars

\* with a Document in the index the listing is the prefixes, the root included
C27_FoldersOfNonEmptyIndex ==
    [][(ListFolders /\ documents # EmptyMap)
          => /\ {folder.path : folder \in response'.folders} = AllFolderPrefixes
             /\ RootFolder \in AllFolderPrefixes]_vars

\* C28: the tags of a Document form a set: no Document of the index holds the
\* same Tag id more than once.
C28_TagsAreASet ==
    \A d \in DOMAIN documents :
        Cardinality(Range(documents[d].tags)) = Len(documents[d].tags)

\* the runs of Document d that are in flight in the frames rs
RunsOf(rs, d) == {r \in DOMAIN rs : rs[r].doc = d}

\* C29: the updates of a Document are serialized, also when runs of the same
\* Document overlap.  A run that settles writes its own outcome in one step:
\* FAILED with the error, or COMPLETED together with the text, the engine name
\* and the engine version of that run.  The status and the three fields change
\* in no step but the start or the end of a run of that Document, so once all
\* its runs have settled the Document shows what the last of them wrote.
C29_LastWriterWins ==
    /\ [][\A r \in DOMAIN runs \ DOMAIN runs' :
             LET d == runs[r].doc
             IN  d \in DOMAIN documents'
                   => \/ /\ documents'[d].ocr_status = FAILED
                         /\ CarriesError(documents'[d])
                         /\ OcrResults(documents'[d]) = OcrResults(documents[d])
                      \/ /\ documents'[d].ocr_status = COMPLETED
                         /\ runs[r].mime # None
                         /\ OcrResults(documents'[d])
                               = <<Some(RecognisedText(The(runs[r].mime))),
                                   Some(runs[r].engine),
                                   Some(EngineVersion(runs[r].engine))>>]_vars
    /\ [][\A d \in DOMAIN documents \cap DOMAIN documents' :
             (\/ documents'[d].ocr_status # documents[d].ocr_status
              \/ OcrResults(documents'[d]) # OcrResults(documents[d]))
                 => RunsOf(runs', d) # RunsOf(runs, d)]_vars
    /\ [](\A d \in DOMAIN documents :
             RunsOf(runs, d) = {} => documents[d].ocr_status \in {COMPLETED, FAILED})

\* C29 witness: a run of a Document is still in flight while another run of
\* the same Document, with another engine, has persisted COMPLETED after the
\* first one recorded PROCESSING.
C29_Witness ==
    \E r \in DOMAIN runs :
        /\ runs[r].doc \in DOMAIN documents
        /\ documents[runs[r].doc].ocr_status = COMPLETED
        /\ documents[runs[r].doc].ocr_engine # Some(runs[r].engine)
        /\ runs[r].pc = "engine"

\* all runs of a Document that ran with two engines have settled and the
\* Document is COMPLETED after an earlier failure
C29_WitnessSettled ==
    \E d \in DOMAIN documents :
        /\ RunsOf(runs, d) = {}
        /\ nextRun > 2
        /\ Cardinality(DOMAIN documents) = 1
        /\ documents[d].ocr_status = COMPLETED
        /\ CarriesError(documents[d])

\* C30: every Tag in the tag list of a Document of the index is in the tag
\* index under the same id.
C30_DocumentTagsExist ==
    \A d \in DOMAIN documents : Range(documents[d].tags) \subseteq DOMAIN tags

\* C30 witness: a Tag that was handed out has left the index while a Document
\* still holds another Tag.
C30_Witness ==
    /\ \E t \in 1..(nextTag - 1) : t \notin DOMAIN tags
    /\ \E d \in DOMAIN documents : documents[d].tags # <<>>

\* C31: a run that ends in COMPLETED changes ocr_status, ocr_text, ocr_engine
\* and ocr_engine_version of its Document and nothing else: the metadata bag,
\* with the error an earlier failed run left in it, stays as it was.
C31_CompletedKeepsMetadata ==
    [][\A d \in DOMAIN documents \cap DOMAIN documents' :
          (/\ documents'[d].ocr_status = COMPLETED
           /\ \E r \in RunsOf(runs, d) : r \notin DOMAIN runs')
              => /\ documents'[d].metadata = documents[d].metadata
                 /\ [documents'[d] EXCEPT
                        !.ocr_status = documents[d].ocr_status,
                        !.ocr_text = documents[d].ocr_text,
                        !.ocr_engine = documents[d].ocr_engine,
                        !.ocr_engine_version = documents[d].ocr_engine_version]
                       = documents[d]]_vars

\* C31 witness: a Document whose earlier run failed has been re-processed with
\* success and its metadata still carries the error.
C31_Witness ==
    \E d \in DOMAIN documents :
        /\ documents[d].ocr_status = COMPLETED
        /\ documents[d].ocr_text # None
        /\ documents[d].metadata # {}
        /\ CarriesError(documents[d])

\* the Document holds a Tag whose name is exactly n
HoldsNamed(d, n) ==
    \E i \in DOMAIN documents[d].tags : tags[documents[d].tags[i]].name = n

\* C32: ingestion resolves a tag name ignoring case and search matches it
\* exactly.  Every Document holds, for each name its upload asked for, a Tag
\* of that name ignoring case; a search on one tag name returns the Documents
\* that hold a Tag of exactly that name: one that asked for "R" and holds the
\* Tag "r" is returned for "r" and not for "R".
C32_SearchTagsCaseSensitive ==
    [][(/\ response'.op = "search_documents"
        /\ response' # response
        /\ response'.query \in TagQueries)
          => \A d \in DOMAIN documents :
                /\ \A n \in RequestedNames(d) :
                      \E i \in DOMAIN documents[d].tags :
                         documents[d].tags[i] \in SameName(tags, n)
                /\ \A n \in AskedNames(response'.query.tags) :
                      d \in Range(response'.results) <=> HoldsNamed(d, n)]_vars

\* C32 witness: a search on the tag name "R" has left out a Document whose
\* upload asked for "R" and which holds the Tag "r".
C32_Witness ==
    /\ response.op = "search_documents"
    /\ response.query \in TagQueries
    /\ AskedNames(response.query.tags) = {<<"R">>}
    /\ \E d \in DOMAIN documents :
          /\ <<"R">> \in RequestedNames(d)
          /\ HoldsNamed(d, <<"r">>)
          /\ ~HoldsNamed(d, <<"R">>)
          /\ d \notin Range(response.results)

\* a search on the tag name "r" has returned a Document whose upload asked for
\* "R" and which holds the Tag "r"
C32_WitnessReturned ==
    /\ response.op = "search_documents"
    /\ response.query \in TagQueries
    /\ AskedNames(response.query.tags) = {<<"r">>}
    /\ \E d \in DOMAIN documents :
          /\ <<"R">> \in RequestedNames(d)
          /\ HoldsNamed(d, <<"r">>)
          /\ d \in Range(response.results)

====
